---------------------------- MODULE Spec2Model ----------------------------
(***************************************************************************)
(* Model of src/main.py: the health check, the chat-completion proxy       *)
(* (openai_proxy), the job lookup (get_job_details) and the identifier     *)
(* normalisation utility (convert_objectid).                               *)
(*                                                                         *)
(* A Python str is a sequence of one-character strings, so that formatting *)
(* (f-strings, str()) and parsing (ObjectId(...)) are computed rather than *)
(* assumed.  A Python/BSON value is a tagged record [t, v]:                 *)
(*   "null" None, "str" a str, "oid" a bson ObjectId (v = its 24 lowercase *)
(*   hex digits), "list" a list (v a sequence of values), "dict" a dict    *)
(*   (v a function from keys to values).                                   *)
(***************************************************************************)
EXTENDS Integers, Sequences, FiniteSets, TLC

VARIABLES store, config, reqs, doc, out, out2, stage

vars == <<store, config, reqs, doc, out, out2, stage>>

(***************************************************************************)
(* Bounds of the model.                                                    *)
(***************************************************************************)
NReq == 2
MaxDepth == 2
MaxLen == 2

Reqs == 1..NReq

(***************************************************************************)
(* String literals.                                                        *)
(***************************************************************************)
OidAHex == <<"5", "f", "1", "a", "2", "b", "3", "c", "4", "d", "5", "e", "6", "f", "7", "a", "8", "b", "9", "c", "0", "d", "1", "e">>
OidAUpper == <<"5", "F", "1", "A", "2", "B", "3", "C", "4", "D", "5", "E", "6", "F", "7", "A", "8", "B", "9", "C", "0", "D", "1", "E">>
OidBHex == <<"5", "f", "1", "a", "2", "b", "3", "c", "4", "d", "5", "e", "6", "f", "7", "a", "8", "b", "9", "c", "0", "d", "1", "f">>
NotAValidId == <<"n", "o", "t", "-", "a", "-", "v", "a", "l", "i", "d", "-", "i", "d">>
ShortHex == <<"5", "f", "1", "a", "2", "b", "3", "c", "4", "d", "5", "e", "6", "f", "7", "a", "8", "b", "9", "c", "0", "d", "1">>
NonHex24 == <<"5", "f", "1", "a", "2", "b", "3", "c", "4", "d", "5", "e", "6", "f", "7", "a", "8", "b", "9", "c", "0", "d", "1", "g">>
OpenAIErrorPrefix == <<"O", "p", "e", "n", "A", "I", " ", "A", "P", "I", " ", "e", "r", "r", "o", "r", ":", " ">>
ConnectFailPrefix == <<"F", "a", "i", "l", "e", "d", " ", "t", "o", " ", "c", "o", "n", "n", "e", "c", "t", " ", "t", "o", " ", "O", "p", "e", "n", "A", "I", " ", "A", "P", "I", ":", " ">>
InternalPrefix == <<"I", "n", "t", "e", "r", "n", "a", "l", " ", "s", "e", "r", "v", "e", "r", " ", "e", "r", "r", "o", "r", ":", " ">>
InvalidJobId == <<"I", "n", "v", "a", "l", "i", "d", " ", "j", "o", "b", " ", "I", "D">>
JobNotFound == <<"J", "o", "b", " ", "n", "o", "t", " ", "f", "o", "u", "n", "d">>
MongoOk == <<"M", "o", "n", "g", "o", "D", "B", " ", "c", "o", "n", "n", "e", "c", "t", "e", "d", " ", "s", "u", "c", "c", "e", "s", "s", "f", "u", "l", "l", "y">>
RateLimited == <<"r", "a", "t", "e", " ", "l", "i", "m", "i", "t", "e", "d">>
ServerDown == <<"u", "p", "s", "t", "r", "e", "a", "m", " ", "u", "n", "a", "v", "a", "i", "l", "a", "b", "l", "e">>
Engineer == <<"E", "n", "g", "i", "n", "e", "e", "r">>
BuildThings == <<"B", "u", "i", "l", "d", " ", "t", "h", "i", "n", "g", "s">>
Why == <<"W", "h", "y", "?">>
Acme == <<"A", "c", "m", "e">>
ColonSpace == <<":", " ">>
AbcJson == <<"{", "\"", "i", "d", "\"", ":", "\"", "a", "b", "c", "\"", "}">>
Abc == <<"a", "b", "c">>
NotJson == <<"<", "h", "t", "m", "l", ">">>
Bearer == <<"B", "e", "a", "r", "e", "r", " ">>
AppJson == <<"a", "p", "p", "l", "i", "c", "a", "t", "i", "o", "n", "/", "j", "s", "o", "n">>
Gpt4o == <<"g", "p", "t", "-", "4", "o">>
User == <<"u", "s", "e", "r">>
Hi == <<"h", "i">>
SkKey == <<"s", "k", "-", "t", "e", "s", "t">>
Url == <<"h", "t", "t", "p", "s", ":", "/", "/", "u", "p", "/", "v", "1">>
TimedOut == <<"t", "i", "m", "e", "d", " ", "o", "u", "t">>
ConnFailed == <<"c", "o", "n", "n", "e", "c", "t", " ", "f", "a", "i", "l", "e", "d">>
ExpectingValue == <<"E", "x", "p", "e", "c", "t", "i", "n", "g", " ", "v", "a", "l", "u", "e">>
BadUrlType == <<"I", "n", "v", "a", "l", "i", "d", " ", "t", "y", "p", "e", " ", "f", "o", "r", " ", "u", "r", "l">>
Digits == <<"0", "1", "2", "3", "4", "5", "6", "7", "8", "9">>

(***************************************************************************)
(* Python / BSON values.                                                   *)
(***************************************************************************)
None == [t |-> "null", v |-> <<>>]
Str(s) == [t |-> "str", v |-> s]
Oid(h) == [t |-> "oid", v |-> h]
List(s) == [t |-> "list", v |-> s]
Dict(f) == [t |-> "dict", v |-> f]

\* str(ObjectId): the 24 lowercase hex digits of the identifier.
OidStr(o) == o.v

\* isinstance(data, ObjectId)
IsObjectId(data) == data.t = "oid"

(***************************************************************************)
(* convert_objectid (main.py 143-150).                                     *)
(***************************************************************************)
RECURSIVE convert_objectid_strall(_)
\* Variant that stringifies every scalar, not only ObjectIds.
convert_objectid_strall(data) ==
    IF data.t = "list"
    THEN List([i \in 1..Len(data.v) |-> convert_objectid_strall(data.v[i])])
    ELSE IF data.t = "dict"
    THEN Dict([key \in DOMAIN data.v |-> convert_objectid_strall(data.v[key])])
    ELSE IF data.t = "str" THEN data
    ELSE IF data.t = "oid" THEN Str(OidStr(data))
    ELSE Str(<<"N", "o", "n", "e">>)

RECURSIVE convert_objectid_shallow(_)
\* Variant that descends into lists but not into the values of mappings.
convert_objectid_shallow(data) ==
    IF data.t = "list"
    THEN List([i \in 1..Len(data.v) |-> convert_objectid_shallow(data.v[i])])
    ELSE IF data.t = "dict"
    THEN Dict([key \in DOMAIN data.v |->
                 IF IsObjectId(data.v[key]) THEN Str(OidStr(data.v[key]))
                 ELSE data.v[key]])
    ELSE IF IsObjectId(data) THEN Str(OidStr(data))
    ELSE data

RECURSIVE convert_objectid(_)
convert_objectid(data) ==
    IF data.t = "list"
    THEN List([i \in 1..Len(data.v) |-> convert_objectid(data.v[i])])
    ELSE IF data.t = "dict"
    THEN Dict([key \in DOMAIN data.v |-> convert_objectid(data.v[key])])
    ELSE IF IsObjectId(data) THEN Str(OidStr(data))
    ELSE data

(***************************************************************************)
(* Bounded documents for the checks of convert_objectid.                   *)
(***************************************************************************)
DocScalars == {Oid(OidAHex), Str(OidAHex), None}
DocKeys == {"_id"}

SeqsUpTo(n, S) == UNION {[1..k -> S] : k \in 0..n}

RECURSIVE DocsOfDepth(_)
DocsOfDepth(n) ==
    IF n = 0 THEN DocScalars
    ELSE LET sub == DocsOfDepth(n - 1)
         IN  DocScalars
             \cup {List(s) : s \in SeqsUpTo(MaxLen, sub)}
             \cup UNION {{Dict(f) : f \in [K -> sub]} : K \in SUBSET DocKeys}

Docs == DocsOfDepth(MaxDepth)

RECURSIVE ContainsOid(_)
ContainsOid(d) ==
    IF d.t = "list" THEN \E i \in 1..Len(d.v) : ContainsOid(d.v[i])
    ELSE IF d.t = "dict" THEN \E k \in DOMAIN d.v : ContainsOid(d.v[k])
    ELSE d.t = "oid"

RECURSIVE SameShape(_, _)
\* e is d with every ObjectId replaced by its string form and nothing else
\* changed, stated structurally.
SameShape(d, e) ==
    IF d.t = "list"
    THEN /\ e.t = "list"
         /\ Len(e.v) = Len(d.v)
         /\ \A i \in 1..Len(d.v) : SameShape(d.v[i], e.v[i])
    ELSE IF d.t = "dict"
    THEN /\ e.t = "dict"
         /\ DOMAIN e.v = DOMAIN d.v
         /\ \A k \in DOMAIN d.v : SameShape(d.v[k], e.v[k])
    ELSE IF d.t = "oid"
    THEN e = Str(d.v)
    ELSE e = d

(***************************************************************************)
(* bson.ObjectId(_id) applied to a str (main.py 158): the string must be   *)
(* exactly 24 hexadecimal digits of either case, otherwise InvalidId is    *)
(* raised; the identifier is the 12 bytes they denote, written here as the *)
(* lowercase digits.                                                       *)
(***************************************************************************)
HexLower == {"0", "1", "2", "3", "4", "5", "6", "7", "8", "9", "a", "b", "c", "d", "e", "f"}
HexUpper == {"A", "B", "C", "D", "E", "F"}

Lower(c) ==
    CASE c = "A" -> "a" [] c = "B" -> "b" [] c = "C" -> "c"
      [] c = "D" -> "d" [] c = "E" -> "e" [] c = "F" -> "f"
      [] OTHER -> c

\* Variant that checks the length only.
ValidObjectId_lenonly(s) == Len(s) = 24

ValidObjectId(s) ==
    /\ Len(s) = 24
    /\ \A i \in 1..Len(s) : s[i] \in HexLower \cup HexUpper

ObjectId(s) == Oid([i \in 1..Len(s) |-> Lower(s[i])])

(***************************************************************************)
(* Startup configuration (main.py 54-58): the key must be present, the URL *)
(* is read without a check and may be missing.                             *)
(***************************************************************************)
Configs ==
    {[OPENAI_API_KEY |-> Str(SkKey), OPENAI_API_URL |-> u] : u \in {Str(Url), None}}

(***************************************************************************)
(* The jobs collection (db.jobs): at most one record per identifier.  The  *)
(* records are written by an ingestion process outside this program.       *)
(***************************************************************************)
StoreOids == {Oid(OidAHex)}

JobFull(o) ==
    Dict(("_id" :> o) @@ ("jobTitle" :> Str(Engineer))
         @@ ("plainTextJobDescription" :> Str(BuildThings))
         @@ ("questions" :> List(<<Dict("questionText" :> Str(Why))>>))
         @@ ("company" :> Str(Acme)))

JobBare(o) == Dict("_id" :> o)

JobNested(o) ==
    Dict(("_id" :> o) @@ ("jobTitle" :> Str(Engineer))
         @@ ("questions" :>
                List(<<Dict(("_id" :> Oid(OidBHex)) @@ ("questionText" :> Str(Why)))>>)))

JobRecords(o) == {JobFull(o), JobBare(o), JobNested(o)}

Stores == [StoreOids -> {None} \cup UNION {JobRecords(o) : o \in StoreOids}]

\* db.jobs.find_one({"_id": object_id}) (main.py 162)
find_one(s, object_id) ==
    IF object_id \in StoreOids /\ s[object_id] # None
    THEN s[object_id]
    ELSE None

(***************************************************************************)
(* Responses.  A returned value becomes a 200 response with that JSON      *)
(* body; a raised HTTPException becomes its status with {"detail": ...}.   *)
(***************************************************************************)
NoResponse == [status |-> 0, body |-> None]
Returned(value) == [status |-> 200, body |-> value]
HTTPException(status_code, detail) ==
    [status |-> status_code, body |-> Dict("detail" :> Str(detail))]

\* health_check (main.py 87-91)
health_check ==
    [status |-> 200, body |-> Dict("status" :> Str(MongoOk))]

(***************************************************************************)
(* get_job_details (main.py 156-173).                                      *)
(***************************************************************************)
\* Python truthiness: "not job"
Falsy(x) ==
    \/ x.t = "null"
    \/ x.t \in {"list", "str"} /\ Len(x.v) = 0
    \/ x.t = "dict" /\ DOMAIN x.v = {}

\* job.get(key, default)
DictGet(job, key, default) ==
    IF key \in DOMAIN job.v THEN job.v[key] ELSE default

\* Variant of the not-found test that also rejects a record without a title.
JobMissing_notitle(job) == Falsy(job) \/ Falsy(DictGet(job, "jobTitle", None))

\* if not job (main.py 163)
JobMissing(job) == Falsy(job)

\* Variant of the projection that returns the record as stored plus job_id.
JobProjection_all(job) ==
    Dict(("job_id" :> job.v["_id"])
         @@ ("title" :> DictGet(job, "jobTitle", None))
         @@ ("description" :> DictGet(job, "plainTextJobDescription", None))
         @@ ("questions" :> DictGet(job, "questions", List(<<>>)))
         @@ job.v)

\* the returned mapping (main.py 168-173)
JobProjection(job) ==
    Dict(("job_id" :> job.v["_id"])
         @@ ("title" :> DictGet(job, "jobTitle", None))
         @@ ("description" :> DictGet(job, "plainTextJobDescription", None))
         @@ ("questions" :> DictGet(job, "questions", List(<<>>))))

\* the part of get_job_details after the query has answered (main.py 163-173)
JobResult(job) ==
    IF JobMissing(job)
    THEN HTTPException(404, JobNotFound)
    ELSE Returned(JobProjection(convert_objectid(job)))

(***************************************************************************)
(* openai_proxy (main.py 97-138).                                          *)
(***************************************************************************)
Messages == {<<>>, <<[role |-> Str(User), content |-> Str(Hi)]>>}

OpenAIRequests ==
    {[model |-> Str(Gpt4o), max_tokens |-> 1000, messages |-> m] : m \in Messages}

NoRequest == [model |-> None, max_tokens |-> 0, messages |-> <<>>]

\* headers (main.py 99-102)
Headers(cfg) ==
    ("Authorization" :> Str(Bearer \o cfg.OPENAI_API_KEY.v))
    @@ ("Content-Type" :> Str(AppJson))

\* payload (main.py 104-112); the temperature 0.7 is kept in tenths
Payload(request) ==
    [model |-> request.model,
     messages |-> [i \in 1..Len(request.messages) |->
                     [role |-> request.messages[i].role,
                      content |-> request.messages[i].content]],
     max_tokens |-> request.max_tokens,
     temperature_tenths |-> 7]

\* client.post(OPENAI_API_URL, headers=headers, json=payload) (main.py 115-119)
Post(cfg, request) ==
    [url |-> cfg.OPENAI_API_URL, headers |-> Headers(cfg), json |-> Payload(request)]

NothingSent == [url |-> None, headers |-> <<>>, json |-> <<>>]

\* What awaiting client.post(...) can produce (main.py 114-119): a response
\* with a status and a raw body, or an exception of the HTTP client.
\* ConnectTimeout and ReadTimeout are what the 60 second timeout raises.
UpstreamResponses ==
    {[kind |-> "response", cls |-> "Response", status |-> 200, text |-> AbcJson],
     [kind |-> "response", cls |-> "Response", status |-> 200, text |-> NotJson],
     [kind |-> "response", cls |-> "Response", status |-> 429, text |-> RateLimited],
     [kind |-> "response", cls |-> "Response", status |-> 503, text |-> ServerDown]}

UpstreamFailures ==
    {[kind |-> "raise", cls |-> "ConnectError", status |-> 0, text |-> ConnFailed],
     [kind |-> "raise", cls |-> "ConnectTimeout", status |-> 0, text |-> TimedOut],
     [kind |-> "raise", cls |-> "ReadTimeout", status |-> 0, text |-> TimedOut]}

Outcomes == UpstreamResponses \cup UpstreamFailures

NoOutcome == [kind |-> "none", cls |-> "none", status |-> 0, text |-> <<>>]

\* Exception classes and their base class.
BaseOf(cls) ==
    CASE cls = "ConnectTimeout" -> "TimeoutException"
      [] cls = "ReadTimeout" -> "TimeoutException"
      [] cls = "TimeoutException" -> "TransportError"
      [] cls = "ConnectError" -> "NetworkError"
      [] cls = "NetworkError" -> "TransportError"
      [] cls = "TransportError" -> "RequestError"
      [] cls = "RequestError" -> "HTTPError"
      [] cls = "HTTPError" -> "Exception"
      [] cls = "HTTPException" -> "Exception"
      [] cls = "JSONDecodeError" -> "ValueError"
      [] cls = "ValueError" -> "Exception"
      [] cls = "TypeError" -> "Exception"
      [] OTHER -> "BaseException"

RECURSIVE IsInstance(_, _)
IsInstance(cls, base) ==
    IF cls = base THEN TRUE
    ELSE IF cls = "BaseException" THEN FALSE
    ELSE IsInstance(BaseOf(cls), base)

RECURSIVE IntStr(_)
\* decimal digits of a natural number
IntStr(n) ==
    IF n < 10 THEN <<Digits[n + 1]>>
    ELSE IntStr(n \div 10) \o <<Digits[(n % 10) + 1]>>

Raised(cls, status_code, detail) ==
    [raised |-> TRUE, cls |-> cls, status |-> status_code, detail |-> detail,
     value |-> None]
Value(v) ==
    [raised |-> FALSE, cls |-> "none", status |-> 0, detail |-> <<>>, value |-> v]

\* str(e): an HTTPException prints "<status_code>: <detail>", the other
\* exceptions print their message.
ExcStr(e) ==
    IF e.cls = "HTTPException"
    THEN IntStr(e.status) \o ColonSpace \o e.detail
    ELSE e.detail

\* response.json() (main.py 127) on the raw bodies of the model
JsonOf(text) ==
    IF text = AbcJson THEN Value(Dict("id" :> Str(Abc)))
    ELSE Raised("JSONDecodeError", 0, ExpectingValue)

\* the body of the try block once client.post has produced its outcome
\* (main.py 115-127)
TryBody(outcome) ==
    IF outcome.kind = "raise"
    THEN Raised(outcome.cls, 0, outcome.text)
    ELSE IF outcome.status # 200
    THEN Raised("HTTPException", outcome.status, OpenAIErrorPrefix \o outcome.text)
    ELSE JsonOf(outcome.text)

\* Variant with the two except clauses in the other order.
ExceptClauses_swapped(result) ==
    IF ~result.raised THEN Returned(result.value)
    ELSE IF IsInstance(result.cls, "Exception")
    THEN HTTPException(500, InternalPrefix \o ExcStr(result))
    ELSE HTTPException(500, ConnectFailPrefix \o ExcStr(result))

\* Variant that wraps the upstream body in an envelope.
ExceptClauses_wrapped(result) ==
    IF ~result.raised THEN Returned(Dict("data" :> result.value))
    ELSE IF IsInstance(result.cls, "RequestError")
    THEN HTTPException(500, ConnectFailPrefix \o ExcStr(result))
    ELSE HTTPException(500, InternalPrefix \o ExcStr(result))

\* the except clauses (main.py 129-138), applied to what the try block did
ExceptClauses(result) ==
    IF ~result.raised THEN Returned(result.value)
    ELSE IF IsInstance(result.cls, "RequestError")
    THEN HTTPException(500, ConnectFailPrefix \o ExcStr(result))
    ELSE IF IsInstance(result.cls, "Exception")
    THEN HTTPException(500, InternalPrefix \o ExcStr(result))
    ELSE NoResponse

\* openai_proxy from the outcome of its outbound call to its response
ProxyResult(outcome) == ExceptClauses(TryBody(outcome))

\* client.post(None, ...) raises TypeError before anything is sent
ProxyNoUrl == ExceptClauses(Raised("TypeError", 0, BadUrlType))

(***************************************************************************)
(* Requests in service.  Each slot of reqs is one request: what it asked,  *)
(* where its handler is suspended, what its external call answered and     *)
(* what was sent back.                                                     *)
(***************************************************************************)
JobIds == {OidAHex, OidAUpper, OidBHex, NotAValidId, ShortHex, NonHex24}

IdleReq ==
    [kind |-> "none", pc |-> "idle", id |-> <<>>, request |-> NoRequest,
     sent |-> NothingSent, outcome |-> NoOutcome, found |-> None, resp |-> NoResponse,
     ncalls |-> 0, nqueries |-> 0, nresp |-> 0]

IdleStore == [o \in StoreOids |-> None]
IdleConfig == [OPENAI_API_KEY |-> Str(SkKey), OPENAI_API_URL |-> Str(Url)]
IdleReqs == [r \in Reqs |-> IdleReq]

Init ==
    /\ store \in Stores
    /\ config \in Configs
    /\ reqs = IdleReqs
    /\ doc = None
    /\ out = None
    /\ out2 = None
    /\ stage = "off"

\* GET / or /health
Health(r) ==
    /\ reqs[r].pc = "idle"
    /\ reqs' = [reqs EXCEPT ![r] =
                  [@ EXCEPT !.kind = "health", !.pc = "done",
                            !.resp = health_check, !.nresp = @ + 1]]
    /\ UNCHANGED <<store, config, doc, out, out2, stage>>

\* POST /api/openai up to the await of client.post (main.py 98-115)
OpenAIBegin(r) ==
    /\ reqs[r].pc = "idle"
    /\ \E request \in OpenAIRequests :
         IF config.OPENAI_API_URL = None
         THEN reqs' = [reqs EXCEPT ![r] =
                  [@ EXCEPT !.kind = "openai", !.request = request,
                            !.pc = "done", !.resp = ProxyNoUrl,
                            !.nresp = @ + 1]]
         ELSE reqs' = [reqs EXCEPT ![r] =
                  [@ EXCEPT !.kind = "openai", !.request = request,
                            !.sent = Post(config, request),
                            !.pc = "await_post", !.ncalls = @ + 1]]
    /\ UNCHANGED <<store, config, doc, out, out2, stage>>

\* Variant that issues the call again after a failure, up to three times.
OpenAIResume_retry(r) ==
    /\ reqs[r].pc = "await_post"
    /\ \E outcome \in Outcomes :
         IF ProxyResult(outcome).status # 200 /\ reqs[r].ncalls < 3
         THEN reqs' = [reqs EXCEPT ![r] = [@ EXCEPT !.ncalls = @ + 1]]
         ELSE reqs' = [reqs EXCEPT ![r] =
                  [@ EXCEPT !.outcome = outcome, !.pc = "done",
                            !.resp = ProxyResult(outcome), !.nresp = @ + 1]]
    /\ UNCHANGED <<store, config, doc, out, out2, stage>>

\* POST /api/openai from the completion of client.post to the response
\* (main.py 115-138)
OpenAIResume(r) ==
    /\ reqs[r].pc = "await_post"
    /\ \E outcome \in Outcomes :
         reqs' = [reqs EXCEPT ![r] =
                  [@ EXCEPT !.outcome = outcome, !.pc = "done",
                            !.resp = ProxyResult(outcome), !.nresp = @ + 1]]
    /\ UNCHANGED <<store, config, doc, out, out2, stage>>

\* GET /jobs/{_id} up to the await of find_one (main.py 157-162)
JobBegin(r) ==
    /\ reqs[r].pc = "idle"
    /\ \E id \in JobIds :
         IF ValidObjectId(id)
         THEN reqs' = [reqs EXCEPT ![r] =
                  [@ EXCEPT !.kind = "job", !.id = id,
                            !.pc = "await_find_one", !.nqueries = @ + 1]]
         ELSE reqs' = [reqs EXCEPT ![r] =
                  [@ EXCEPT !.kind = "job", !.id = id, !.pc = "done",
                            !.resp = HTTPException(400, InvalidJobId),
                            !.nresp = @ + 1]]
    /\ UNCHANGED <<store, config, doc, out, out2, stage>>

\* Variant that stamps the record it served back into the collection.
JobResume_touch(r) ==
    /\ reqs[r].pc = "await_find_one"
    /\ LET job == find_one(store, ObjectId(reqs[r].id))
       IN  /\ reqs' = [reqs EXCEPT ![r] =
                  [@ EXCEPT !.found = job, !.pc = "done",
                            !.resp = JobResult(job), !.nresp = @ + 1]]
           /\ store' = IF job = None THEN store
                       ELSE [store EXCEPT ![job.v["_id"]] = JobBare(job.v["_id"])]
    /\ UNCHANGED <<config, doc, out, out2, stage>>

\* GET /jobs/{_id} from the answer of find_one to the response
\* (main.py 162-173)
JobResume(r) ==
    /\ reqs[r].pc = "await_find_one"
    /\ LET job == find_one(store, ObjectId(reqs[r].id))
       IN  reqs' = [reqs EXCEPT ![r] =
                  [@ EXCEPT !.found = job, !.pc = "done",
                            !.resp = JobResult(job), !.nresp = @ + 1]]
    /\ UNCHANGED <<store, config, doc, out, out2, stage>>

\* The ingestion process writes or removes a job record.
Ingest ==
    /\ \E o \in StoreOids : \E rec \in {None} \cup JobRecords(o) :
         /\ store[o] # rec
         /\ store' = [store EXCEPT ![o] = rec]
    /\ UNCHANGED <<config, reqs, doc, out, out2, stage>>

Next ==
    \/ \E r \in Reqs : Health(r)
    \/ \E r \in Reqs : OpenAIBegin(r)
    \/ \E r \in Reqs : OpenAIResume(r)
    \/ \E r \in Reqs : JobBegin(r)
    \/ \E r \in Reqs : JobResume(r)
    \/ Ingest

Spec == Init /\ [][Next]_vars

InitConv ==
    /\ store = IdleStore
    /\ config = IdleConfig
    /\ reqs = IdleReqs
    /\ doc \in Docs
    /\ out = None
    /\ out2 = None
    /\ stage = "in"

\* job = convert_objectid(job)
Normalize ==
    /\ stage = "in"
    /\ out' = convert_objectid(doc)
    /\ stage' = "once"
    /\ UNCHANGED <<store, config, reqs, doc, out2>>

\* a second application, to the result of the first
Renormalize ==
    /\ stage = "once"
    /\ out2' = convert_objectid(out)
    /\ stage' = "twice"
    /\ UNCHANGED <<store, config, reqs, doc, out>>

NextConv == Normalize \/ Renormalize

SpecConv == InitConv /\ [][NextConv]_vars

\* C7: convert_objectid is idempotent, and is the identity on a document
\* that contains no native identifier at any depth.
C7_IdempotentAndNoOp ==
    /\ stage = "twice" => out2 = out
    /\ (stage # "in" /\ ~ContainsOid(doc)) => out = doc

C7_Witness ==
    /\ stage = "twice"
    /\ doc.t = "list" /\ Len(doc.v) = 2
    /\ doc.v[1].t = "dict" /\ ContainsOid(doc.v[1])
    /\ doc.v[2] = Str(OidAHex)
    /\ out # doc

\* C8: convert_objectid returns a structure of the same shape: sequences keep
\* length and order, mappings keep their key set, every native identifier is
\* replaced by its string form, every other scalar is unchanged, and the
\* result holds no native identifier.
C8_ShapePreserved ==
    stage # "in" => SameShape(doc, out) /\ ~ContainsOid(out)

C8_Witness ==
    /\ stage = "once"
    /\ doc.t = "dict" /\ "_id" \in DOMAIN doc.v
    /\ doc.v["_id"].t = "list" /\ Len(doc.v["_id"].v) = 2
    /\ doc.v["_id"].v[1] = None
    /\ doc.v["_id"].v[2] = Oid(OidAHex)
    /\ out = Dict("_id" :> List(<<None, Str(OidAHex)>>))
(***************************************************************************)
(* Properties of the request handlers.                                     *)
(***************************************************************************)
StartsWith(s, prefix) ==
    Len(s) >= Len(prefix) /\ SubSeq(s, 1, Len(prefix)) = prefix

Contains(s, sub) ==
    \E i \in 0..(Len(s) - Len(sub)) : SubSeq(s, i + 1, i + Len(sub)) = sub

Detail(resp) == resp.body.v["detail"].v

ProxyDone(r) == reqs[r].kind = "openai" /\ reqs[r].pc = "done"
JobDone(r) == reqs[r].kind = "job" /\ reqs[r].pc = "done"

\* An id string that is not 24 hexadecimal digits.
Malformed(s) ==
    \/ Len(s) # 24
    \/ \E i \in 1..Len(s) : s[i] \notin HexLower \cup HexUpper

\* C1: when the outbound call completes with a non-success status S and raw
\* body B, the client receives status S and a detail that contains B.
C1_UpstreamStatusRelayed ==
    \A r \in Reqs :
        (ProxyDone(r) /\ reqs[r].outcome.kind = "response"
                      /\ reqs[r].outcome.status # 200)
        => /\ reqs[r].resp.status = reqs[r].outcome.status
           /\ "detail" \in DOMAIN reqs[r].resp.body.v
           /\ Contains(Detail(reqs[r].resp), reqs[r].outcome.text)

\* C2: a job lookup whose id is not convertible to an ObjectId is answered
\* 400 "Invalid job ID", and no query is ever issued for it.
C2_InvalidIdRejectedBeforeQuery ==
    \A r \in Reqs :
        (reqs[r].kind = "job" /\ Malformed(reqs[r].id))
        => /\ reqs[r].nqueries = 0
           /\ reqs[r].pc # "await_find_one"
           /\ reqs[r].found = None
           /\ reqs[r].pc = "done"
              => reqs[r].resp = [status |-> 400,
                                 body |-> Dict("detail" :> Str(InvalidJobId))]

C2_Witness ==
    \E r \in Reqs :
        /\ JobDone(r)
        /\ reqs[r].id = NonHex24
        /\ reqs[r].resp.status = 400
        /\ store[Oid(OidAHex)] # None

FoundJob(r) ==
    JobDone(r) /\ ~Malformed(reqs[r].id) /\ reqs[r].found # None

ResponseKeys == {"job_id", "title", "description", "questions"}

\* C3 as stated: a found record R is answered 200 with exactly the four
\* fields job_id = str(R._id), title = R.jobTitle or null, description =
\* R.plainTextJobDescription or null, questions = R.questions or [].
C3_ProjectionOfStored ==
    \A r \in Reqs :
        FoundJob(r)
        => LET R == reqs[r].found
               body == reqs[r].resp.body
           IN  /\ reqs[r].resp.status = 200
               /\ body.t = "dict" /\ DOMAIN body.v = ResponseKeys
               /\ body.v["job_id"] = Str(OidStr(R.v["_id"]))
               /\ body.v["title"] = DictGet(R, "jobTitle", None)
               /\ body.v["description"] = DictGet(R, "plainTextJobDescription", None)
               /\ body.v["questions"] = DictGet(R, "questions", List(<<>>))

\* C3 amended: a found record R is answered 200 with exactly the four fields
\* job_id = str(R._id), title, description and questions, where the last
\* three are R.jobTitle, R.plainTextJobDescription and R.questions with every
\* native identifier inside them replaced by its string form (null, null and
\* the empty sequence when the field is absent).
C3_ProjectionOfNormalized ==
    \A r \in Reqs :
        FoundJob(r)
        => LET R == reqs[r].found
               body == reqs[r].resp.body
           IN  /\ reqs[r].resp.status = 200
               /\ body.t = "dict" /\ DOMAIN body.v = ResponseKeys
               /\ body.v["job_id"] = Str(OidStr(R.v["_id"]))
               /\ SameShape(DictGet(R, "jobTitle", None), body.v["title"])
               /\ SameShape(DictGet(R, "plainTextJobDescription", None),
                            body.v["description"])
               /\ SameShape(DictGet(R, "questions", List(<<>>)),
                            body.v["questions"])
               /\ ~ContainsOid(body)

C3_Witness ==
    \E r \in Reqs :
        /\ FoundJob(r)
        /\ reqs[r].id = OidAUpper
        /\ reqs[r].found = JobNested(Oid(OidAHex))
        /\ reqs[r].resp.body.v["job_id"] = Str(OidAHex)
        /\ reqs[r].resp.body.v["description"] = None
        /\ reqs[r].resp.body.v["questions"] # reqs[r].found.v["questions"]

\* C4: a job lookup with a well-formed id is answered 404 "Job not found"
\* when the query returned no record, and a 404 is returned only then.
C4_NotFoundIffNoRecord ==
    \A r \in Reqs :
        JobDone(r)
        => /\ (~Malformed(reqs[r].id) /\ reqs[r].found = None)
              => reqs[r].resp = [status |-> 404,
                                 body |-> Dict("detail" :> Str(JobNotFound))]
           /\ reqs[r].resp.status = 404
              => (~Malformed(reqs[r].id) /\ reqs[r].found = None)

C4_Witness ==
    /\ \E r \in Reqs :
        /\ JobDone(r) /\ reqs[r].id = OidBHex
        /\ reqs[r].found = None /\ reqs[r].resp.status = 404
    /\ \E r \in Reqs :
        /\ JobDone(r) /\ reqs[r].found = JobBare(Oid(OidAHex))
        /\ reqs[r].resp.status = 200

\* C5: when the outbound call completes with status 200 and a JSON body J,
\* the client receives status 200 and a body equal to J.
C5_SuccessBodyVerbatim ==
    \A r \in Reqs :
        (ProxyDone(r) /\ reqs[r].outcome.kind = "response"
                      /\ reqs[r].outcome.status = 200)
        => /\ ~JsonOf(reqs[r].outcome.text).raised
              => reqs[r].resp = [status |-> 200,
                                 body |-> JsonOf(reqs[r].outcome.text).value]
           /\ reqs[r].outcome.text = AbcJson
              => reqs[r].resp = [status |-> 200, body |-> Dict("id" :> Str(Abc))]

C5_Witness ==
    \E r \in Reqs :
        /\ ProxyDone(r)
        /\ reqs[r].outcome.status = 200
        /\ reqs[r].outcome.text = AbcJson
        /\ reqs[r].resp.status = 200

\* C6: when the outbound call fails at the network level, the timeout
\* included, the client receives 500 with the connection-failure detail,
\* not the generic internal-error one.
C6_NetworkFailureIsConnectError ==
    \A r \in Reqs :
        (ProxyDone(r) /\ reqs[r].outcome.kind = "raise")
        => /\ reqs[r].resp.status = 500
           /\ StartsWith(Detail(reqs[r].resp), ConnectFailPrefix)
           /\ ~StartsWith(Detail(reqs[r].resp), InternalPrefix)

C6_Witness ==
    \E r \in Reqs :
        /\ ProxyDone(r)
        /\ reqs[r].outcome.cls = "ReadTimeout"
        /\ reqs[r].resp.status = 500
        /\ Detail(reqs[r].resp) = ConnectFailPrefix \o TimedOut

\* C9: every request ends in exactly one response, and issues at most one
\* outbound call and at most one query, whatever the call produced.
C9_SingleOutcomeNoRetry ==
    \A r \in Reqs :
        /\ reqs[r].ncalls <= 1
        /\ reqs[r].nqueries <= 1
        /\ reqs[r].nresp <= 1
        /\ reqs[r].pc = "done" <=> reqs[r].nresp = 1
        /\ reqs[r].pc = "done" => reqs[r].resp # NoResponse
        /\ reqs[r].kind = "openai" => reqs[r].nqueries = 0
        /\ reqs[r].kind = "job" => reqs[r].ncalls = 0

C9_Witness ==
    /\ \E r \in Reqs :
        /\ ProxyDone(r) /\ reqs[r].outcome.status = 503
        /\ reqs[r].ncalls = 1 /\ reqs[r].nresp = 1
    /\ \E r \in Reqs :
        /\ JobDone(r) /\ reqs[r].nqueries = 1 /\ reqs[r].nresp = 1
        /\ reqs[r].resp.status = 404

\* The response a request gets when it is handled alone: a function of what
\* it asked, of what its own external call answered and of the startup
\* configuration.
AloneResponse(rq) ==
    CASE rq.kind = "health" -> health_check
      [] rq.kind = "openai" ->
            IF rq.ncalls = 0
            THEN HTTPException(500, InternalPrefix \o BadUrlType)
            ELSE ExceptClauses(TryBody(rq.outcome))
      [] rq.kind = "job" ->
            IF ~ValidObjectId(rq.id) THEN HTTPException(400, InvalidJobId)
            ELSE JobResult(rq.found)
      [] OTHER -> NoResponse

\* C10: under any interleaving of requests, a handler step changes neither
\* the document store nor the startup configuration, touches no request but
\* its own, and each response is the one the request would get alone.
C10_HandlersIsolated ==
    /\ [](\A r \in Reqs : reqs[r].pc = "done" => reqs[r].resp = AloneResponse(reqs[r]))
    /\ [][/\ config' = config
          /\ reqs' # reqs => store' = store
          /\ \A r, q \in Reqs :
               (r # q /\ reqs'[r] # reqs[r]) => reqs'[q] = reqs[q]]_vars

C10_Witness ==
    /\ \E r \in Reqs :
        /\ JobDone(r) /\ reqs[r].found = JobFull(Oid(OidAHex))
        /\ store[Oid(OidAHex)] = None
    /\ \E r \in Reqs : reqs[r].pc = "await_post"
=============================================================================
